---- MODULE Spec2Model ----
\* Model of the Tubely upload handlers: handlerUploadVideo with its helpers
\* (getVideoAspectRatio, processVideoForFastStart, generatePresignedURL,
\* dbVideoToSignedVideo) and handlerUploadThumbnail, running as concurrent
\* requests against one record store, one object store and one local disk.
\*
\* Strings are sequences of tokens: the separators "/", ",", ";" and "." are
\* tokens of their own, every other token is a run of characters that holds
\* no separator.  strings.Split and concatenation work on these sequences.
EXTENDS Integers, Sequences, FiniteSets, TLC

\* ---------------------------------------------------------------- bounds
MaxReq == 2

\* Longest stored reference, in tokens, that the presign specification draws.
MaxRefLen == 3

Reqs == 1..MaxReq

\* ------------------------------------------------------ program constants
uploadLimit == 1073741824

StatusOK == 200

StatusBadRequest == 400

StatusUnauthorized == 401

StatusNotFound == 404

StatusInternalServerError == 500

\* ------------------------------------------------------------ environment
Null == <<"nil">>

Owner == "alice"

Users == {"alice", "bob"}

s3Bucket == "tubely-bucket"

port == "8091"

\* Content-Type headers of the uploaded part.
HdrMp4 == <<"video", "/", "mp4">>

HdrPng == <<"image", "/", "png">>

HdrMp4Params == <<"video", "/", "mp4", ";", " codecs=avc1">>

HdrMp4Comma == <<"video", "/", "mp4", ";", " codecs=\"avc1", ",", "mp4a\"">>

HdrEmpty == << >>

Headers == {HdrMp4, HdrPng, HdrMp4Params, HdrMp4Comma, HdrEmpty}

\* Sizes of the uploaded file part, in bytes.
BodySizes == {uploadLimit, uploadLimit + 1}

\* Outputs of ffprobe -show_streams, already decoded into ffprobeOutput.
Stream(w, h) == [Width |-> w, Height |-> h]

ProbeOutputs ==
    { << >>,
      << Stream(0, 720) >>,
      << Stream(1920, 1080) >>,
      << Stream(1080, 1920), Stream(1920, 1080) >>,
      << Stream(720, 720) >> }

\* ------------------------------------------------------------ strings
\* strings.Split(s, sep) for a one-token separator.
RECURSIVE SplitFrom(_, _, _, _)
SplitFrom(s, sep, i, cur) ==
    IF i > Len(s) THEN << cur >>
    ELSE IF s[i] = sep THEN << cur >> \o SplitFrom(s, sep, i + 1, << >>)
    ELSE SplitFrom(s, sep, i + 1, Append(cur, s[i]))

Split(s, sep) == SplitFrom(s, sep, 1, << >>)

\* mime.ParseMediaType: the media type is the text before the first ";";
\* an empty media type is an error.
ParseMediaType(v) ==
    LET base == Split(v, ";")[1]
    IN  IF base = << >> THEN [err |-> TRUE, mediatype |-> << >>]
        ELSE [err |-> FALSE, mediatype |-> base]

\* base64.RawURLEncoding.EncodeToString(buffer): a buffer filled by rand.Read
\* is unique to the request, a buffer rand.Read left untouched is all zero.
EncodeToString(r, randOK) ==
    IF randOK THEN << "name" \o ToString(r) >> ELSE << "AAAAAAAA" >>

\* ------------------------------------------------------------ classifier
Abs(x) == IF x < 0 THEN -x ELSE x

\* approx(ratio, 16/9) and approx(ratio, 9/16) for ratio = w/h, h > 0, as
\* the float64 comparisons a > b-0.05 && a < b+0.05 decide them:
\*   w/h - 16/9 = (180w - 320h) / 180h   and   0.05 = 9h / 180h
\*   w/h - 9/16 = (80w - 45h) / 80h      and   0.05 = 4h / 80h
\* Off the band edges the comparisons are those of the exact ratios.  On an
\* edge rounding decides: 16.0/9.0 - 0.05 rounds below float64(311)/180, so
\* the ratio 311/180 is inside; 16.0/9.0 + 0.05, 9.0/16.0 - 0.05 and
\* 9.0/16.0 + 0.05 do not round past 329/180, 41/80 and 49/80, which are
\* outside.
\* Mutant: the comparison with the upper edge admits equality.
approxLandscapeUpperInclusive(w, h) ==
    /\ 180 * w - 320 * h >= -(9 * h)
    /\ 180 * w - 320 * h <= 9 * h

approxLandscape(w, h) ==
    /\ 180 * w - 320 * h >= -(9 * h)
    /\ 180 * w - 320 * h < 9 * h

approxPortrait(w, h) == Abs(80 * w - 45 * h) < 4 * h

\* Mutant: the last listed stream is consulted.
getVideoAspectRatioLastStream(parsed) ==
    IF Len(parsed) = 0 THEN [err |-> TRUE, orientation |-> ""]
    ELSE LET width == parsed[Len(parsed)].Width
             height == parsed[Len(parsed)].Height
         IN  IF width = 0 \/ height = 0 THEN [err |-> TRUE, orientation |-> ""]
             ELSE IF approxLandscape(width, height)
                  THEN [err |-> FALSE, orientation |-> "landscape"]
             ELSE IF approxPortrait(width, height)
                  THEN [err |-> FALSE, orientation |-> "portrait"]
             ELSE [err |-> FALSE, orientation |-> "other"]

\* Mutant: the two orientation labels are exchanged.
getVideoAspectRatioSwapped(parsed) ==
    IF Len(parsed) = 0 THEN [err |-> TRUE, orientation |-> ""]
    ELSE LET width == parsed[1].Width
             height == parsed[1].Height
         IN  IF width = 0 \/ height = 0 THEN [err |-> TRUE, orientation |-> ""]
             ELSE IF approxLandscape(width, height)
                  THEN [err |-> FALSE, orientation |-> "portrait"]
             ELSE IF approxPortrait(width, height)
                  THEN [err |-> FALSE, orientation |-> "landscape"]
             ELSE [err |-> FALSE, orientation |-> "other"]

\* Mutant: a missing stream or a zero dimension falls through to "other".
getVideoAspectRatioDefaultOther(parsed) ==
    IF Len(parsed) = 0 THEN [err |-> FALSE, orientation |-> "other"]
    ELSE LET width == parsed[1].Width
             height == parsed[1].Height
         IN  IF width = 0 \/ height = 0
             THEN [err |-> FALSE, orientation |-> "other"]
             ELSE IF approxLandscape(width, height)
                  THEN [err |-> FALSE, orientation |-> "landscape"]
             ELSE IF approxPortrait(width, height)
                  THEN [err |-> FALSE, orientation |-> "portrait"]
             ELSE [err |-> FALSE, orientation |-> "other"]

getVideoAspectRatio(parsed) ==
    IF Len(parsed) = 0 THEN [err |-> TRUE, orientation |-> ""]
    ELSE LET width == parsed[1].Width
             height == parsed[1].Height
         IN  IF width = 0 \/ height = 0 THEN [err |-> TRUE, orientation |-> ""]
             ELSE IF approxLandscape(width, height)
                  THEN [err |-> FALSE, orientation |-> "landscape"]
             ELSE IF approxPortrait(width, height)
                  THEN [err |-> FALSE, orientation |-> "portrait"]
             ELSE [err |-> FALSE, orientation |-> "other"]

\* ------------------------------------------------------------ local files
\* os.CreateTemp("", "tubely-upload.mp4"): a name unique to the call.
TempName(r) == << "tmp", "tubely-upload.mp4", ToString(r) >>

\* processVideoForFastStart: outputPath := filePath + ".processing"
OutputPath(filePath) == Append(filePath, ".processing")

\* ------------------------------------------------------------ state
VARIABLES
    db,        \* the record store's row of the one video: database.Video
    s3,        \* keys of the objects acknowledged by the object store, in s3Bucket
    disk,      \* paths of the files that exist on local disk
    fr,        \* fr[r]: the frame of request r's handler (pc and locals)
    resp,      \* resp[r]: status codes handed to respondWithError/respondWithJSON, in order
    body,      \* body[r]: the payload handed to respondWithJSON, Null before
    hist,      \* hist[r]: what request r has done to disk, object store and record store
    videoThumbnails  \* the package-level map of the in-memory thumbnail handler

vars == << db, s3, disk, fr, resp, body, hist, videoThumbnails >>

\* database.Video, the fields the handlers read or write.
Video(userID, videoURL, thumbnailURL) ==
    [UserID |-> userID, VideoURL |-> videoURL, ThumbnailURL |-> thumbnailURL]

NoFrame ==
    [ pc |-> "idle", kind |-> "none", userID |-> "", size |-> 0,
      video |-> Video("", Null, Null), contentType |-> Null,
      fileName |-> << >>, parsed |-> << >>, orientation |-> "",
      objKey |-> << >>, err |-> "" ]

NoHist ==
    [ created |-> {}, copied |-> 0, probed |-> FALSE, put |-> {},
      updated |-> {}, presigned |-> {} ]

\* videoThumbnails: the entry of the one video, the handlers that are inside
\* an assignment to the map, and whether two of them have overlapped.
NoThumbnails == [ entry |-> "none", writers |-> {}, torn |-> FALSE ]

Init ==
    /\ db = Video(Owner, Null, Null)
    /\ s3 = {}
    /\ disk = {}
    /\ fr = [r \in Reqs |-> NoFrame]
    /\ resp = [r \in Reqs |-> << >>]
    /\ body = [r \in Reqs |-> Video("", Null, Null)]
    /\ hist = [r \in Reqs |-> NoHist]
    /\ videoThumbnails = NoThumbnails

\* respondWithError / respondWithJSON: one more status handed to the writer.
Respond(r, code) == resp' = [resp EXCEPT ![r] = Append(@, code)]

\* return: the handler is over.
Return(r) == fr' = [fr EXCEPT ![r].pc = "done"]

Goto(r, label) == fr' = [fr EXCEPT ![r].pc = label]

\* ------------------------------------------------------------ handlerUploadVideo
\* uuid.Parse, auth.GetBearerToken, auth.ValidateJWT (lines 29-48).
VideoBegin(r) ==
    /\ fr[r].pc = "idle"
    /\ UNCHANGED << videoThumbnails, db, s3, disk, body, hist >>
    /\ \/ /\ Respond(r, StatusBadRequest)
          /\ fr' = [fr EXCEPT ![r].pc = "done", ![r].kind = "video"]
       \/ /\ Respond(r, StatusUnauthorized)
          /\ fr' = [fr EXCEPT ![r].pc = "done", ![r].kind = "video"]
       \/ \E u \in Users :
          /\ fr' = [fr EXCEPT ![r].pc = "getVideo", ![r].kind = "video",
                              ![r].userID = u]
          /\ UNCHANGED resp

\* Mutant: the owner check is missing.
VideoGetVideoNoOwnerCheck(r) ==
    /\ fr[r].pc = "getVideo"
    /\ UNCHANGED << videoThumbnails, db, s3, disk, body, hist >>
    /\ \/ /\ Respond(r, StatusNotFound)
          /\ Return(r)
       \/ /\ Respond(r, StatusInternalServerError)
          /\ Return(r)
       \/ /\ fr' = [fr EXCEPT ![r].pc = "formFile", ![r].video = db]
          /\ UNCHANGED resp

\* cfg.db.GetVideo and the owner check (lines 50-67).
VideoGetVideo(r) ==
    /\ fr[r].pc = "getVideo"
    /\ UNCHANGED << videoThumbnails, db, s3, disk, body, hist >>
    /\ \/ /\ Respond(r, StatusNotFound)
          /\ Return(r)
       \/ /\ Respond(r, StatusInternalServerError)
          /\ Return(r)
       \/ /\ db.UserID # fr[r].userID
          /\ Respond(r, StatusUnauthorized)
          /\ fr' = [fr EXCEPT ![r].pc = "done", ![r].video = db]
       \/ /\ db.UserID = fr[r].userID
          /\ fr' = [fr EXCEPT ![r].pc = "formFile", ![r].video = db]
          /\ UNCHANGED resp

\* Mutant: every media type that parses is accepted.
VideoFormFileAnyType(r) ==
    /\ fr[r].pc = "formFile"
    /\ UNCHANGED << videoThumbnails, db, s3, disk, body, hist >>
    /\ \/ /\ Respond(r, StatusBadRequest)
          /\ Return(r)
       \/ \E size \in BodySizes, contentType \in Headers :
          LET pm == ParseMediaType(contentType)
          IN  IF pm.err
              THEN /\ Respond(r, StatusBadRequest)
                   /\ fr' = [fr EXCEPT ![r].pc = "done", ![r].size = size,
                                       ![r].contentType = contentType]
              ELSE \E randOK \in BOOLEAN :
                   LET fileExtension == Split(contentType, "/")[2]
                       fileName == EncodeToString(r, randOK) \o << "." >>
                                       \o fileExtension
                   IN  /\ fr' = [fr EXCEPT ![r].pc = "createTemp",
                                           ![r].size = size,
                                           ![r].contentType = contentType,
                                           ![r].fileName = fileName]
                       /\ IF randOK THEN UNCHANGED resp
                          ELSE Respond(r, StatusInternalServerError)

\* r.FormFile, the content-type check and the file name (lines 69-97).
\* A failing rand.Read writes an error response and the handler goes on.
VideoFormFile(r) ==
    /\ fr[r].pc = "formFile"
    /\ UNCHANGED << videoThumbnails, db, s3, disk, body, hist >>
    /\ \/ /\ Respond(r, StatusBadRequest)
          /\ Return(r)
       \/ \E size \in BodySizes, contentType \in Headers :
          LET pm == ParseMediaType(contentType)
          IN  IF pm.err \/ pm.mediatype # << "video", "/", "mp4" >>
              THEN /\ Respond(r, StatusBadRequest)
                   /\ fr' = [fr EXCEPT ![r].pc = "done", ![r].size = size,
                                       ![r].contentType = contentType]
              ELSE \E randOK \in BOOLEAN :
                   LET fileExtension == Split(contentType, "/")[2]
                       fileName == EncodeToString(r, randOK) \o << "." >>
                                       \o fileExtension
                   IN  /\ fr' = [fr EXCEPT ![r].pc = "createTemp",
                                           ![r].size = size,
                                           ![r].contentType = contentType,
                                           ![r].fileName = fileName]
                       /\ IF randOK THEN UNCHANGED resp
                          ELSE Respond(r, StatusInternalServerError)

\* os.CreateTemp and io.Copy (lines 99-112).  io.Copy copies the whole part.
VideoCreateTemp(r) ==
    /\ fr[r].pc = "createTemp"
    /\ UNCHANGED << videoThumbnails, db, s3, body >>
    /\ \/ /\ Respond(r, StatusInternalServerError)
          /\ Return(r)
          /\ UNCHANGED << disk, hist >>
       \/ \E n \in {0, fr[r].size} :
          /\ n < fr[r].size
          /\ disk' = disk \ {TempName(r)}
          /\ hist' = [hist EXCEPT ![r].created = @ \cup {TempName(r)},
                                  ![r].copied = n]
          /\ Respond(r, StatusInternalServerError)
          /\ Return(r)
       \/ /\ disk' = disk \cup {TempName(r)}
          /\ hist' = [hist EXCEPT ![r].created = @ \cup {TempName(r)},
                                  ![r].copied = fr[r].size]
          /\ Goto(r, "remux")
          /\ UNCHANGED resp

\* processVideoForFastStart (lines 114-122, 227-248).  A failing ffmpeg may
\* or may not have created its output file; the handler removes the input.
VideoRemux(r) ==
    /\ fr[r].pc = "remux"
    /\ UNCHANGED << videoThumbnails, db, s3, body >>
    /\ LET outputPath == OutputPath(TempName(r))
       IN  \/ \E written \in BOOLEAN :
              /\ disk' = (disk \cup (IF written THEN {outputPath} ELSE {}))
                             \ {TempName(r)}
              /\ hist' = [hist EXCEPT ![r].created =
                              @ \cup (IF written THEN {outputPath} ELSE {})]
              /\ Respond(r, StatusInternalServerError)
              /\ Return(r)
           \/ /\ disk' = disk \cup {outputPath}
              /\ hist' = [hist EXCEPT ![r].created = @ \cup {outputPath}]
              /\ Goto(r, "probe")
              /\ UNCHANGED resp

\* Mutant: only the processed file is removed at return.
DeferredProcessedOnly(r) == disk' = disk \ {OutputPath(TempName(r))}

\* The deferred calls registered on lines 121-122, run at return.
Deferred(r) == disk' = disk \ {OutputPath(TempName(r)), TempName(r)}

\* os.Open and getVideoAspectRatio (lines 124-139).
VideoProbe(r) ==
    /\ fr[r].pc = "probe"
    /\ UNCHANGED << videoThumbnails, db, s3, body >>
    /\ \/ /\ Respond(r, StatusInternalServerError)
          /\ Return(r)
          /\ Deferred(r)
          /\ UNCHANGED hist
       \/ \E parsed \in ProbeOutputs :
          LET ar == getVideoAspectRatio(parsed)
          IN  /\ hist' = [hist EXCEPT ![r].probed = TRUE]
              /\ IF ar.err
                 THEN /\ Respond(r, StatusInternalServerError)
                      /\ fr' = [fr EXCEPT ![r].pc = "done",
                                          ![r].parsed = parsed]
                      /\ Deferred(r)
                 ELSE /\ fr' = [fr EXCEPT
                                    ![r].pc = "putObject",
                                    ![r].parsed = parsed,
                                    ![r].orientation = ar.orientation,
                                    ![r].objKey = << ar.orientation, "/" >>
                                                      \o fr[r].fileName]
                      /\ UNCHANGED << resp, disk >>

\* Mutant: the handler goes on after a failed PutObject.
VideoPutObjectNoReturn(r) ==
    /\ fr[r].pc = "putObject"
    /\ UNCHANGED << videoThumbnails, db, body >>
    /\ \/ /\ Respond(r, StatusInternalServerError)
          /\ Goto(r, "updateVideo")
          /\ UNCHANGED << s3, hist, disk >>
       \/ /\ s3' = s3 \cup {fr[r].objKey}
          /\ hist' = [hist EXCEPT ![r].put = @ \cup {fr[r].objKey}]
          /\ Goto(r, "updateVideo")
          /\ UNCHANGED << resp, disk >>

\* cfg.s3Client.PutObject (lines 141-151).
VideoPutObject(r) ==
    /\ fr[r].pc = "putObject"
    /\ UNCHANGED << videoThumbnails, db, body >>
    /\ \/ /\ Respond(r, StatusInternalServerError)
          /\ Return(r)
          /\ Deferred(r)
          /\ UNCHANGED << s3, hist >>
       \/ /\ s3' = s3 \cup {fr[r].objKey}
          /\ hist' = [hist EXCEPT ![r].put = @ \cup {fr[r].objKey}]
          /\ Goto(r, "updateVideo")
          /\ UNCHANGED << resp, disk >>

\* cfg.db.UpdateVideo(video): the row takes every mutable column of the
\* record it is given; the owner column is not among them.
UpdateVideo(video) ==
    db' = [db EXCEPT !.VideoURL = video.VideoURL,
                     !.ThumbnailURL = video.ThumbnailURL]

\* fmt.Sprintf("%s,%s", cfg.s3Bucket, objKey)
VideoURLOf(bucket, objKey) == << bucket, "," >> \o objKey

\* Mutant: the handler goes on after a failed UpdateVideo.
VideoUpdateVideoNoReturn(r) ==
    /\ fr[r].pc = "updateVideo"
    /\ UNCHANGED << videoThumbnails, s3, body >>
    /\ LET video == [fr[r].video EXCEPT
                         !.VideoURL = VideoURLOf(s3Bucket, fr[r].objKey)]
       IN  \/ /\ Respond(r, StatusInternalServerError)
              /\ fr' = [fr EXCEPT ![r].pc = "presign", ![r].video = video]
              /\ UNCHANGED << db, hist, disk >>
           \/ /\ UpdateVideo(video)
              /\ hist' = [hist EXCEPT ![r].updated = @ \cup {video}]
              /\ fr' = [fr EXCEPT ![r].pc = "presign", ![r].video = video]
              /\ UNCHANGED << resp, disk >>

\* The reference is built and the record updated (lines 153-162).
VideoUpdateVideo(r) ==
    /\ fr[r].pc = "updateVideo"
    /\ UNCHANGED << videoThumbnails, s3, body >>
    /\ LET video == [fr[r].video EXCEPT
                         !.VideoURL = VideoURLOf(s3Bucket, fr[r].objKey)]
       IN  \/ /\ Respond(r, StatusInternalServerError)
              /\ fr' = [fr EXCEPT ![r].pc = "done", ![r].video = video]
              /\ Deferred(r)
              /\ UNCHANGED << db, hist >>
           \/ /\ UpdateVideo(video)
              /\ hist' = [hist EXCEPT ![r].updated = @ \cup {video}]
              /\ fr' = [fr EXCEPT ![r].pc = "presign", ![r].video = video]
              /\ UNCHANGED << resp, disk >>

\* generatePresignedURL: req.URL of the presigned GET for bucket and key.
SignedURL(bucket, key) ==
    << "https://" >> \o bucket \o << "/" >> \o key \o << "?X-Amz-Signature" >>

\* Mutant: only a reference with fewer than two parts is turned down.
dbVideoToSignedVideoAtLeastTwo(video, presignOK) ==
    IF video.VideoURL = Null
    THEN [err |-> FALSE, kind |-> "", calls |-> {}, video |-> video]
    ELSE LET parts == Split(video.VideoURL, ",")
         IN  IF Len(parts) < 2
             THEN [err |-> TRUE, kind |-> "format", calls |-> {},
                   video |-> video]
             ELSE IF ~presignOK
             THEN [err |-> TRUE, kind |-> "presign",
                   calls |-> {<< parts[1], parts[2] >>}, video |-> video]
             ELSE [err |-> FALSE, kind |-> "",
                   calls |-> {<< parts[1], parts[2] >>},
                   video |-> [video EXCEPT
                                  !.VideoURL = SignedURL(parts[1], parts[2])]]

\* dbVideoToSignedVideo (lines 271-294); the argument is a copy of the record.
\* kind names the error ("format" or "presign"), calls holds the bucket and
\* key handed to generatePresignedURL.
dbVideoToSignedVideo(video, presignOK) ==
    IF video.VideoURL = Null
    THEN [err |-> FALSE, kind |-> "", calls |-> {}, video |-> video]
    ELSE LET parts == Split(video.VideoURL, ",")
         IN  IF Len(parts) # 2
             THEN [err |-> TRUE, kind |-> "format", calls |-> {},
                   video |-> video]
             ELSE IF ~presignOK
             THEN [err |-> TRUE, kind |-> "presign",
                   calls |-> {<< parts[1], parts[2] >>}, video |-> video]
             ELSE [err |-> FALSE, kind |-> "",
                   calls |-> {<< parts[1], parts[2] >>},
                   video |-> [video EXCEPT
                                  !.VideoURL = SignedURL(parts[1], parts[2])]]

\* The signed view is built and returned (lines 164-171).
VideoPresign(r) ==
    /\ fr[r].pc = "presign"
    /\ UNCHANGED << videoThumbnails, db, s3 >>
    /\ Deferred(r)
    /\ \E presignOK \in BOOLEAN :
       LET sv == dbVideoToSignedVideo(fr[r].video, presignOK)
       IN  /\ fr' = [fr EXCEPT ![r].pc = "done", ![r].err = sv.kind]
           /\ hist' = [hist EXCEPT ![r].presigned = @ \cup sv.calls]
           /\ IF sv.err
              THEN /\ Respond(r, StatusInternalServerError)
                   /\ UNCHANGED body
              ELSE /\ Respond(r, StatusOK)
                   /\ body' = [body EXCEPT ![r] = sv.video]

\* ------------------------------------------------------------ handlerUploadThumbnail
\* filepath.Join(cfg.assetsRoot, fileName)
AssetPath(fileName) == << "assets", "/" >> \o fileName

\* fmt.Sprintf("http://localhost:%s/assets/%s", cfg.port, fileName)
ThumbnailURLOf(fileName) ==
    << "http://localhost:", port, "/", "assets", "/" >> \o fileName

\* uuid.Parse, the token checks and r.FormFile (lines 21-52).
ThumbBegin(r) ==
    /\ fr[r].pc = "idle"
    /\ UNCHANGED << videoThumbnails, db, s3, disk, body, hist >>
    /\ \/ /\ Respond(r, StatusBadRequest)
          /\ fr' = [fr EXCEPT ![r].pc = "done", ![r].kind = "thumbnail"]
       \/ /\ Respond(r, StatusUnauthorized)
          /\ fr' = [fr EXCEPT ![r].pc = "done", ![r].kind = "thumbnail"]
       \/ \E u \in Users :
          /\ fr' = [fr EXCEPT ![r].pc = "thumbGetVideo",
                              ![r].kind = "thumbnail", ![r].userID = u]
          /\ UNCHANGED resp

\* cfg.db.GetVideo and the owner check (lines 54-69).
ThumbGetVideo(r) ==
    /\ fr[r].pc = "thumbGetVideo"
    /\ UNCHANGED << videoThumbnails, db, s3, disk, body, hist >>
    /\ \/ /\ Respond(r, StatusNotFound)
          /\ Return(r)
       \/ /\ Respond(r, StatusInternalServerError)
          /\ Return(r)
       \/ /\ db.UserID # fr[r].userID
          /\ Respond(r, StatusUnauthorized)
          /\ fr' = [fr EXCEPT ![r].pc = "done", ![r].video = db]
       \/ /\ db.UserID = fr[r].userID
          /\ fr' = [fr EXCEPT ![r].pc = "thumbCreate", ![r].video = db]
          /\ UNCHANGED resp

\* The content-type check, the file name, os.Create and io.Copy
\* (lines 71-106).  A failing rand.Read writes an error response and the
\* handler goes on; a failing io.Copy leaves the created file.
ThumbCreate(r) ==
    /\ fr[r].pc = "thumbCreate"
    /\ UNCHANGED << videoThumbnails, db, s3, body >>
    /\ \E contentType \in Headers :
       LET pm == ParseMediaType(contentType)
       IN  IF pm.err \/ pm.mediatype \notin { << "image", "/", "jpeg" >>,
                                              << "image", "/", "png" >> }
           THEN /\ Respond(r, StatusBadRequest)
                /\ fr' = [fr EXCEPT ![r].pc = "done",
                                    ![r].contentType = contentType]
                /\ UNCHANGED << disk, hist >>
           ELSE \E randOK \in BOOLEAN, outcome \in {"create", "copy", "ok"} :
                LET fileExtension == Split(contentType, "/")[2]
                    fileName == EncodeToString(r, randOK) \o << "." >>
                                    \o fileExtension
                    codes == (IF randOK THEN << >>
                              ELSE << StatusInternalServerError >>)
                             \o (IF outcome = "ok" THEN << >>
                                 ELSE << StatusInternalServerError >>)
                IN  /\ resp' = [resp EXCEPT ![r] = @ \o codes]
                    /\ fr' = [fr EXCEPT
                                  ![r].pc = IF outcome = "ok" THEN "thumbUpdate"
                                            ELSE "done",
                                  ![r].contentType = contentType,
                                  ![r].fileName = fileName]
                    /\ IF outcome = "create" THEN UNCHANGED << disk, hist >>
                       ELSE /\ disk' = disk \cup {AssetPath(fileName)}
                            /\ hist' = [hist EXCEPT ![r].created =
                                            @ \cup {AssetPath(fileName)}]

\* The thumbnail reference is built and the record updated (lines 108-118).
ThumbUpdateVideo(r) ==
    /\ fr[r].pc = "thumbUpdate"
    /\ UNCHANGED << videoThumbnails, s3, disk >>
    /\ LET video == [fr[r].video EXCEPT
                         !.ThumbnailURL = ThumbnailURLOf(fr[r].fileName)]
       IN  \/ /\ Respond(r, StatusInternalServerError)
              /\ fr' = [fr EXCEPT ![r].pc = "done", ![r].video = video]
              /\ UNCHANGED << db, body, hist >>
           \/ /\ UpdateVideo(video)
              /\ hist' = [hist EXCEPT ![r].updated = @ \cup {video}]
              /\ fr' = [fr EXCEPT ![r].pc = "done", ![r].video = video]
              /\ Respond(r, StatusOK)
              /\ body' = [body EXCEPT ![r] = video]

\* ------------------------------------------------------------ specification
Next ==
    \E r \in Reqs :
       \/ VideoBegin(r)
       \/ VideoGetVideo(r)
       \/ VideoFormFile(r)
       \/ VideoCreateTemp(r)
       \/ VideoRemux(r)
       \/ VideoProbe(r)
       \/ VideoPutObject(r)
       \/ VideoUpdateVideo(r)
       \/ VideoPresign(r)
       \/ ThumbBegin(r)
       \/ ThumbGetVideo(r)
       \/ ThumbCreate(r)
       \/ ThumbUpdateVideo(r)

Spec == Init /\ [][Next]_vars

\* ------------------------------------------------------------ properties
IsVideo(r) == fr[r].kind = "video"

IsThumb(r) == fr[r].kind = "thumbnail"

Ended(r) == fr[r].pc = "done"

Last(q) == q[Len(q)]

NoEffects(r) ==
    /\ hist[r].created = {}
    /\ hist[r].put = {}
    /\ hist[r].updated = {}

\* C1: once a video-upload request has ended, on whatever exit path, the
\* staged temporary file it created is no longer on local disk.
C1_StagedFileRemoved ==
    \A r \in Reqs : (IsVideo(r) /\ Ended(r)) => TempName(r) \notin disk

\* C1 witness: a request ended in an error after the remux step had run,
\* having created its staged file.
C1_Witness ==
    \E r \in Reqs :
       /\ IsVideo(r) /\ Ended(r)
       /\ TempName(r) \in hist[r].created
       /\ OutputPath(TempName(r)) \in hist[r].created
       /\ Last(resp[r]) = StatusInternalServerError
       /\ TempName(r) \notin disk

\* C2: once a video-upload request has ended, no remuxed file of that
\* request is on local disk, also when the Remuxer failed after the tool
\* had started writing its output.
C2_RemuxedFileRemoved ==
    \A r \in Reqs :
       (IsVideo(r) /\ Ended(r)) => OutputPath(TempName(r)) \notin disk

\* C3: a video-upload request whose caller is not the record's owner ends
\* with an unauthorized response once the record is resolved, never gets
\* past the owner check, creates no file and no object and updates nothing.
C3_NonOwnerStopped ==
    \A r \in Reqs :
       (IsVideo(r) /\ fr[r].userID # "" /\ fr[r].userID # db.UserID) =>
          /\ fr[r].pc \in {"getVideo", "done"}
          /\ NoEffects(r)
          /\ hist[r].copied = 0
          /\ (Ended(r) /\ fr[r].video.UserID # "") =>
                 resp[r] = << StatusUnauthorized >>

\* C3 witness: a non-owner's request has ended on the resolved record while
\* the owner's upload has stored an object.
C3_Witness ==
    \E r \in Reqs :
       /\ IsVideo(r) /\ Ended(r)
       /\ fr[r].userID = "bob"
       /\ fr[r].video.UserID = Owner
       /\ resp[r] = << StatusUnauthorized >>
       /\ s3 # {}

\* C4: the persisted storage reference is null or "<bucket>,<key>" for a
\* key already acknowledged by the object store, under every interleaving;
\* it is never a signed URL.
C4_ReferenceAfterWrite ==
    /\ db.VideoURL # Null =>
          \E key \in s3 : db.VideoURL = << s3Bucket, "," >> \o key
    /\ \A r \in Reqs :
          (IsVideo(r) /\ body[r].VideoURL # Null) =>
             (db.VideoURL # body[r].VideoURL /\ Head(db.VideoURL) # "https://")

\* C4 witness: two requests have both updated the record, one of them a
\* video upload whose signed response is out, and the reference is set.
C4_Witness ==
    \E r1, r2 \in Reqs :
       /\ r1 # r2
       /\ IsVideo(r1) /\ hist[r1].updated # {} /\ hist[r2].updated # {}
       /\ resp[r1] = << StatusOK >>
       /\ db.VideoURL # Null

\* C5: every error of the video pipeline is terminal: one response is
\* written per request, and once a response is written the handler has
\* ended, so that no later step runs.
C5_ErrorsTerminal ==
    \A r \in Reqs :
       (IsVideo(r) /\ resp[r] # << >>) => (Ended(r) /\ Len(resp[r]) = 1)

\* C6: an upload above the 1 GiB limit is rejected: the bytes beyond the
\* limit never reach the staged file, no object is created and the record
\* is not updated.
C6_UploadLimitEnforced ==
    \A r \in Reqs :
       IsVideo(r) =>
          /\ hist[r].copied <= uploadLimit
          /\ fr[r].size > uploadLimit =>
                (hist[r].put = {} /\ hist[r].updated = {})

\* C7: a video upload whose declared media type is not video/mp4 is
\* rejected as a bad request before any temporary file exists; it creates
\* no object and leaves the record alone.
C7_OtherTypesRejected ==
    \A r \in Reqs :
       (/\ IsVideo(r)
        /\ fr[r].contentType # Null
        /\ \/ fr[r].contentType = << >>
           \/ Split(fr[r].contentType, ";")[1] # HdrMp4) =>
          /\ Ended(r)
          /\ resp[r] = << StatusBadRequest >>
          /\ NoEffects(r)
          /\ hist[r].copied = 0

\* C7 witness: an upload declared image/png has been turned down.
C7_Witness ==
    \E r \in Reqs :
       /\ IsVideo(r) /\ Ended(r)
       /\ fr[r].contentType = HdrPng
       /\ resp[r] = << StatusBadRequest >>

\* C8: after a successful upload the object is in the bucket at
\* "{orientation}/{name}.{ext}" for the orientation of the probed geometry
\* (1920x1080 gives landscape), the reference this request stored is
\* "{bucket},{key}" for that key, and the response carries the signed URL
\* of that bucket and key instead of the stored reference.
C8_SuccessfulUpload ==
    \A r \in Reqs :
       (IsVideo(r) /\ Ended(r) /\ resp[r] # << >>
           /\ Last(resp[r]) = StatusOK) =>
          LET key == fr[r].objKey
              ref == << s3Bucket, "," >> \o key
          IN  /\ ~getVideoAspectRatio(fr[r].parsed).err
              /\ key = << getVideoAspectRatio(fr[r].parsed).orientation, "/",
                          fr[r].fileName[1], "." >>
                           \o Split(fr[r].contentType, "/")[2]
              /\ fr[r].parsed[1] = Stream(1920, 1080) => key[1] = "landscape"
              /\ fr[r].parsed[1] = Stream(1080, 1920) => key[1] = "portrait"
              /\ fr[r].parsed[1] = Stream(720, 720) => key[1] = "other"
              /\ key \in s3
              /\ hist[r].put = {key}
              /\ \E v \in hist[r].updated : hist[r].updated = {v}
                                            /\ v.VideoURL = ref
              /\ body[r].VideoURL =
                     << "https://", s3Bucket, "/" >> \o key
                         \o << "?X-Amz-Signature" >>
              /\ body[r].VideoURL # ref

\* C8 witness: the owner's 1920x1080 upload declared video/mp4 succeeded.
C8_Witness ==
    \E r \in Reqs :
       /\ IsVideo(r) /\ Ended(r)
       /\ resp[r] = << StatusOK >>
       /\ fr[r].contentType = HdrMp4
       /\ fr[r].parsed = << Stream(1920, 1080) >>
       /\ fr[r].objKey[1] = "landscape"

\* C9: when the probe reports no stream or a zero width or height, the
\* Classifier fails instead of answering "other": the request ends with a
\* server error, both temporary files are gone, no object was created and
\* the record was not updated.
C9_ProbeFailure ==
    \A r \in Reqs :
       (/\ IsVideo(r)
        /\ hist[r].probed
        /\ \/ Len(fr[r].parsed) = 0
           \/ fr[r].parsed[1].Width = 0
           \/ fr[r].parsed[1].Height = 0) =>
          /\ Ended(r)
          /\ Last(resp[r]) = StatusInternalServerError
          /\ \A i \in 1..Len(resp[r]) : resp[r][i] = StatusInternalServerError
          /\ fr[r].objKey = << >>
          /\ TempName(r) \notin disk
          /\ OutputPath(TempName(r)) \notin disk
          /\ hist[r].put = {}
          /\ hist[r].updated = {}

\* C9 witness: a probe that reported 0x720 ended the request, both of whose
\* temporary files had been created.
C9_Witness ==
    \E r \in Reqs :
       /\ IsVideo(r) /\ Ended(r)
       /\ hist[r].probed
       /\ fr[r].parsed = << Stream(0, 720) >>
       /\ hist[r].created = {TempName(r), OutputPath(TempName(r))}

\* C10: the record update of a video upload changes the storage reference
\* only: the thumbnail reference keeps the value the record store holds at
\* the moment of the update, also when a thumbnail upload committed between
\* this handler's GetVideo and its UpdateVideo.
C10_OnlyReferenceChanges ==
    [][ \A r \in Reqs :
           (IsVideo(r) /\ hist'[r].updated # hist[r].updated) =>
              (db'.ThumbnailURL = db.ThumbnailURL /\ db'.UserID = db.UserID)
      ]_vars

\* ------------------------------------------------------------ presign alone
\* dbVideoToSignedVideo applied to whatever reference the record store holds.
RefTokens == {s3Bucket, ",", "key"}

StoredRefs ==
    {Null} \cup UNION { [1..n -> RefTokens] : n \in 0..MaxRefLen }

InitPresign ==
    /\ \E ref \in StoredRefs : db = Video(Owner, ref, Null)
    /\ s3 = {}
    /\ disk = {}
    /\ fr = [r \in Reqs |-> NoFrame]
    /\ resp = [r \in Reqs |-> << >>]
    /\ body = [r \in Reqs |-> Video("", Null, Null)]
    /\ hist = [r \in Reqs |-> NoHist]
    /\ videoThumbnails = NoThumbnails

\* A caller reads the record and asks for its signed view (lines 271-294).
SignStored(r) ==
    /\ fr[r].pc = "idle"
    /\ UNCHANGED << db, s3, disk, resp, videoThumbnails >>
    /\ \E presignOK \in BOOLEAN :
       LET sv == dbVideoToSignedVideo(db, presignOK)
       IN  /\ fr' = [fr EXCEPT ![r].pc = "done", ![r].kind = "presign",
                               ![r].video = db, ![r].err = sv.kind]
           /\ hist' = [hist EXCEPT ![r].presigned = @ \cup sv.calls]
           /\ body' = [body EXCEPT ![r] = sv.video]

NextPresign == \E r \in Reqs : SignStored(r)

SpecPresign == InitPresign /\ [][NextPresign]_vars

IsPresign(r) == fr[r].kind = "presign"

Commas(ref) == Cardinality({i \in 1..Len(ref) : ref[i] = ","})

\* C11: presign generation on a stored reference that is not two non-empty
\* comma-separated components ends in the format error and hands nothing to
\* the store's presigner; this includes ",key", "bucket," and ",".
C11_EmptyComponentsRejected ==
    \A r \in Reqs :
       (IsPresign(r) /\ Ended(r) /\ fr[r].video.VideoURL # Null) =>
          LET parts == Split(fr[r].video.VideoURL, ",")
              wellFormed == /\ Len(parts) = 2
                            /\ parts[1] # << >>
                            /\ parts[2] # << >>
          IN  ~wellFormed => (fr[r].err = "format" /\ hist[r].presigned = {})

\* C12: presign generation on a stored reference with no comma or with more
\* than one comma ends in the format error, issues no record update and
\* leaves the stored reference as it was.
C12_FormatErrorNoMutation ==
    \A r \in Reqs :
       (/\ IsPresign(r) /\ Ended(r)
        /\ fr[r].video.VideoURL # Null
        /\ Commas(fr[r].video.VideoURL) # 1) =>
          /\ fr[r].err = "format"
          /\ hist[r].presigned = {}
          /\ hist[r].updated = {}
          /\ body[r] = fr[r].video
          /\ db = fr[r].video

\* C12 witness: a stored reference with two commas has been turned down.
C12_Witness ==
    \E r \in Reqs :
       /\ IsPresign(r) /\ Ended(r)
       /\ Commas(fr[r].video.VideoURL) = 2
       /\ fr[r].err = "format"
       /\ db = fr[r].video

\* ------------------------------------------------------------ properties, continued
\* C13: when the object-store write succeeded and the record update failed,
\* the request ends with a server error, the uploaded object stays in the
\* store, and the request has persisted no reference: the record points at
\* that key only if another request wrote the key and stored its reference.
C13_OrphanedObject ==
    \A r \in Reqs :
       (/\ IsVideo(r) /\ Ended(r)
        /\ hist[r].put # {}
        /\ hist[r].updated = {}) =>
          /\ Last(resp[r]) = StatusInternalServerError
          /\ \A i \in 1..Len(resp[r]) : resp[r][i] = StatusInternalServerError
          /\ hist[r].put \subseteq s3
          /\ hist[r].presigned = {}
          /\ body[r].VideoURL = Null
          /\ \A key \in hist[r].put :
                db.VideoURL = << s3Bucket, "," >> \o key =>
                   \E q \in Reqs \ {r} :
                      /\ key \in hist[q].put
                      /\ \E v \in hist[q].updated :
                            v.VideoURL = << s3Bucket, "," >> \o key

\* C13 witness: a request whose update failed has ended, its object is in
\* the store and the record holds no reference.
C13_Witness ==
    \E r \in Reqs :
       /\ IsVideo(r) /\ Ended(r)
       /\ hist[r].put # {} /\ hist[r].updated = {}
       /\ resp[r] = << StatusInternalServerError >>
       /\ fr[r].objKey \in s3
       /\ db.VideoURL = Null

\* ------------------------------------------------------------ the Classifier alone
\* First streams that ffprobe may report: inside, on and just outside the
\* two bands, square, and with a zero dimension.
FirstStreams ==
    { Stream(1920, 1080), Stream(328, 180), Stream(1080, 1920),
      Stream(48, 80), Stream(720, 720),
      Stream(311, 180), Stream(329, 180), Stream(658, 360),
      Stream(41, 80), Stream(49, 80),
      Stream(329018, 180000), Stream(310982, 180000),
      Stream(6126, 10000), Stream(5124, 10000),
      Stream(0, 720), Stream(720, 0) }

\* Streams listed after the first one.
ExtraStreams == { << >>, << Stream(1080, 1920) >>, << Stream(0, 0) >> }

ClassifierInputs ==
    { << >> } \cup { << f >> \o x : f \in FirstStreams, x \in ExtraStreams }

InitClassify ==
    /\ db = Video(Owner, Null, Null)
    /\ s3 = {}
    /\ disk = {}
    /\ fr \in [Reqs -> { [NoFrame EXCEPT !.kind = "probe", !.parsed = p] :
                            p \in ClassifierInputs }]
    /\ resp = [r \in Reqs |-> << >>]
    /\ body = [r \in Reqs |-> Video("", Null, Null)]
    /\ hist = [r \in Reqs |-> NoHist]
    /\ videoThumbnails = NoThumbnails

\* getVideoAspectRatio applied to the decoded probe output (lines 199-225).
Classify(r) ==
    /\ fr[r].pc = "idle"
    /\ UNCHANGED << db, s3, disk, resp, body, videoThumbnails >>
    /\ LET ar == getVideoAspectRatio(fr[r].parsed)
       IN  /\ fr' = [fr EXCEPT ![r].pc = "done",
                               ![r].orientation = ar.orientation,
                               ![r].err = IF ar.err THEN "probe" ELSE ""]
           /\ hist' = [hist EXCEPT ![r].probed = TRUE]

NextClassify == \E r \in Reqs : Classify(r)

SpecClassify == InitClassify /\ [][NextClassify]_vars

Classified(r) ==
    /\ fr[r].kind = "probe" /\ Ended(r)
    /\ Len(fr[r].parsed) > 0
    /\ fr[r].parsed[1].Width # 0
    /\ fr[r].parsed[1].Height # 0

\* w/h - 16/9 = (9w - 16h) / 9h  and  w/h - 9/16 = (16w - 9h) / 16h;
\* 0.05 = 1/20.
OffLandscape(w, h) == 20 * (9 * w - 16 * h)

OffPortrait(w, h) == 20 * (16 * w - 9 * h)

\* C14 as stated: the first stream's ratio within 0.05 of 16/9, the edges
\* included, gives landscape, within 0.05 of 9/16 portrait, anything else
\* other; further streams change nothing.
C14_WithinTolerance ==
    \A r \in Reqs :
       Classified(r) =>
          LET w == fr[r].parsed[1].Width
              h == fr[r].parsed[1].Height
          IN  /\ fr[r].err = ""
              /\ fr[r].orientation =
                    IF Abs(OffLandscape(w, h)) <= 9 * h THEN "landscape"
                    ELSE IF Abs(OffPortrait(w, h)) <= 16 * h THEN "portrait"
                    ELSE "other"

\* C14 amended: landscape when 16/9 - 0.05 <= w/h < 16/9 + 0.05, portrait
\* when 9/16 - 0.05 < w/h < 9/16 + 0.05, other in every remaining case; the
\* first listed stream alone decides.
C14_Classification ==
    \A r \in Reqs :
       Classified(r) =>
          LET w == fr[r].parsed[1].Width
              h == fr[r].parsed[1].Height
          IN  /\ fr[r].err = ""
              /\ fr[r].orientation =
                    IF /\ OffLandscape(w, h) >= -(9 * h)
                       /\ OffLandscape(w, h) < 9 * h THEN "landscape"
                    ELSE IF Abs(OffPortrait(w, h)) < 16 * h THEN "portrait"
                    ELSE "other"

\* C14 witness: a landscape first stream followed by a portrait stream was
\* classified, and so was a stream on the lower landscape edge.
C14_Witness ==
    \E r1, r2 \in Reqs :
       /\ Classified(r1) /\ Classified(r2)
       /\ fr[r1].parsed = << Stream(1920, 1080), Stream(1080, 1920) >>
       /\ fr[r1].orientation = "landscape"
       /\ fr[r2].parsed[1] = Stream(311, 180)
       /\ fr[r2].orientation = "landscape"

\* C15 as stated: a ratio exactly 16/9 + 0.05 or 16/9 - 0.05 is inside the
\* landscape band, a ratio at 16/9 +- 0.0501 outside it.
C15_BoundaryInclusive ==
    \A r \in Reqs :
       Classified(r) =>
          LET w == fr[r].parsed[1].Width
              h == fr[r].parsed[1].Height
          IN  /\ Abs(OffLandscape(w, h)) = 9 * h =>
                    fr[r].orientation = "landscape"
              /\ Abs(10000 * (9 * w - 16 * h)) = 501 * 9 * h =>
                    fr[r].orientation # "landscape"

\* C15 amended: a ratio exactly 16/9 - 0.05 is inside the landscape band, a
\* ratio exactly 16/9 + 0.05 is outside it, and so is a ratio at
\* 16/9 +- 0.0501.
C15_BoundaryAsComputed ==
    \A r \in Reqs :
       Classified(r) =>
          LET w == fr[r].parsed[1].Width
              h == fr[r].parsed[1].Height
          IN  /\ OffLandscape(w, h) = -(9 * h) =>
                    fr[r].orientation = "landscape"
              /\ OffLandscape(w, h) = 9 * h => fr[r].orientation = "other"
              /\ Abs(10000 * (9 * w - 16 * h)) = 501 * 9 * h =>
                    fr[r].orientation = "other"

\* C15 witness: 329x180 and 311x180 have both been classified.
C15_Witness ==
    \E r1, r2 \in Reqs :
       /\ Classified(r1) /\ Classified(r2)
       /\ fr[r1].parsed[1] = Stream(329, 180)
       /\ fr[r1].orientation = "other"
       /\ fr[r2].parsed[1] = Stream(311, 180)

\* ------------------------------------------------------------ properties of the upload, continued
\* C16: for every request past the content-type check the extension in the
\* file name and in the object key is mp4, the key being
\* {orientation}/{randomName}.mp4, also when the header carries parameters.
C16_ExtensionIsSubtype ==
    \A r \in Reqs :
       IsVideo(r) =>
          /\ fr[r].fileName # << >> =>
                (Len(fr[r].fileName) = 3 /\ fr[r].fileName[2] = "."
                    /\ fr[r].fileName[3] = "mp4")
          /\ fr[r].objKey # << >> =>
                /\ Len(fr[r].objKey) = 5
                /\ fr[r].objKey[1] \in {"landscape", "portrait", "other"}
                /\ fr[r].objKey[2] = "/"
                /\ fr[r].objKey[5] = "mp4"

\* C19: every reference the upload persists splits on commas into the
\* bucket and the uploaded key, so that the presign step of the upload
\* never ends in the format error, whatever accepted content type was sent.
C19_ReferenceRoundTrip ==
    \A r \in Reqs :
       IsVideo(r) =>
          /\ \A v \in hist[r].updated :
                Split(v.VideoURL, ",") = << << s3Bucket >>, fr[r].objKey >>
          /\ fr[r].err # "format"

\* C20: a video upload that ends with an error response has not changed
\* the record: only requests answered with success have updated it.
C20_ErrorLeavesRecord ==
    \A r \in Reqs :
       (IsVideo(r) /\ Ended(r) /\ resp[r][1] # StatusOK) =>
          hist[r].updated = {}

\* ------------------------------------------------------------ handlerUploadThumbnail, in-memory variant
\* The handler that keeps thumbnails in the package-level map
\* videoThumbnails.  An assignment to a Go map is not atomic: a handler is
\* inside it between ThumbMemStoreBegin and ThumbMemStoreEnd.  Two handlers
\* inside it at once are a data race: the runtime may stop the process
\* ("concurrent map writes"), or the write may go through or be damaged.
videoID == "videoID"

\* fmt.Sprintf("http://localhost:%s/api/thumbnails/%s", cfg.port, videoID)
ThumbnailAPIURLOf(id) ==
    << "http://localhost:", port, "/", "api", "/", "thumbnails", "/", id >>

\* thumbnail{data: imageData, mediaType: contentType} of request r.
ThumbnailOf(r) == "thumbnail" \o ToString(r)

\* fatal error: the process is gone, and every handler with it.
Crash == fr' = [q \in Reqs |-> [fr[q] EXCEPT !.pc = "crashed"]]

\* uuid.Parse, the token checks, r.FormFile and io.ReadAll (lines 15-55).
ThumbMemBegin(r) ==
    /\ fr[r].pc = "idle"
    /\ UNCHANGED << db, s3, disk, body, hist, videoThumbnails >>
    /\ \/ /\ Respond(r, StatusBadRequest)
          /\ fr' = [fr EXCEPT ![r].pc = "done", ![r].kind = "thumbnailMem"]
       \/ /\ Respond(r, StatusUnauthorized)
          /\ fr' = [fr EXCEPT ![r].pc = "done", ![r].kind = "thumbnailMem"]
       \/ /\ Respond(r, StatusInternalServerError)
          /\ fr' = [fr EXCEPT ![r].pc = "done", ![r].kind = "thumbnailMem"]
       \/ \E u \in Users :
          /\ fr' = [fr EXCEPT ![r].pc = "memGetVideo",
                              ![r].kind = "thumbnailMem", ![r].userID = u]
          /\ UNCHANGED resp

\* cfg.db.GetVideo and the owner check (lines 57-72).
ThumbMemGetVideo(r) ==
    /\ fr[r].pc = "memGetVideo"
    /\ UNCHANGED << db, s3, disk, body, hist, videoThumbnails >>
    /\ \/ /\ Respond(r, StatusNotFound)
          /\ Return(r)
       \/ /\ Respond(r, StatusInternalServerError)
          /\ Return(r)
       \/ /\ db.UserID # fr[r].userID
          /\ Respond(r, StatusUnauthorized)
          /\ fr' = [fr EXCEPT ![r].pc = "done", ![r].video = db]
       \/ /\ db.UserID = fr[r].userID
          /\ fr' = [fr EXCEPT ![r].pc = "memStore", ![r].video = db]
          /\ UNCHANGED resp

\* videoThumbnails[videoID] = tn, entered (lines 74-79).
ThumbMemStoreBegin(r) ==
    /\ fr[r].pc = "memStore"
    /\ UNCHANGED << db, s3, disk, resp, body, hist >>
    /\ \/ /\ videoThumbnails.writers = {}
          /\ videoThumbnails' = [videoThumbnails EXCEPT !.writers = {r}]
          /\ Goto(r, "memStoring")
       \/ /\ videoThumbnails.writers # {}
          /\ videoThumbnails' = [videoThumbnails EXCEPT
                                     !.writers = @ \cup {r}, !.torn = TRUE]
          /\ \/ Goto(r, "memStoring")
             \/ Crash

\* videoThumbnails[videoID] = tn, left (line 79).
ThumbMemStoreEnd(r) ==
    /\ fr[r].pc = "memStoring"
    /\ UNCHANGED << db, s3, disk, resp, body, hist >>
    /\ LET rest == videoThumbnails.writers \ {r}
       IN  \/ /\ videoThumbnails' =
                    [entry |-> ThumbnailOf(r), writers |-> rest,
                     torn |-> videoThumbnails.torn /\ rest # {}]
              /\ Goto(r, "memUpdate")
           \/ /\ videoThumbnails.torn
              /\ videoThumbnails' =
                    [entry |-> "corrupt", writers |-> rest,
                     torn |-> rest # {}]
              /\ \/ Goto(r, "memUpdate")
                 \/ Crash

\* The thumbnail reference is built, the record updated with the result of
\* UpdateVideo dropped, and the record returned (lines 81-85).
ThumbMemUpdateVideo(r) ==
    /\ fr[r].pc = "memUpdate"
    /\ UNCHANGED << s3, disk, videoThumbnails >>
    /\ LET video == [fr[r].video EXCEPT
                         !.ThumbnailURL = ThumbnailAPIURLOf(videoID)]
       IN  /\ fr' = [fr EXCEPT ![r].pc = "done", ![r].video = video]
           /\ Respond(r, StatusOK)
           /\ body' = [body EXCEPT ![r] = video]
           /\ \/ UNCHANGED << db, hist >>
              \/ /\ UpdateVideo(video)
                 /\ hist' = [hist EXCEPT ![r].updated = @ \cup {video}]

NextMem ==
    \E r \in Reqs :
       \/ ThumbMemBegin(r)
       \/ ThumbMemGetVideo(r)
       \/ ThumbMemStoreBegin(r)
       \/ ThumbMemStoreEnd(r)
       \/ ThumbMemUpdateVideo(r)

SpecMem == Init /\ [][NextMem]_vars

\* C17: handlers that run at the same time share no mutable in-process
\* state: no two of them are ever inside a write to the same in-process
\* collection, and no such write is damaged or stops the process.
C17_NoSharedInProcessState ==
    /\ Cardinality(videoThumbnails.writers) <= 1
    /\ ~videoThumbnails.torn
    /\ videoThumbnails.entry # "corrupt"
    /\ \A r \in Reqs : fr[r].pc # "crashed"

\* C18: no failure of the record update is swallowed: a handler answers
\* with success only if its UpdateVideo succeeded.
C18_UpdateFailureReported ==
    \A r \in Reqs :
       (/\ fr[r].kind \in {"video", "thumbnail", "thumbnailMem"}
        /\ Ended(r)
        /\ resp[r] # << >>
        /\ Last(resp[r]) = StatusOK) =>
          hist[r].updated # {}

====
